---- MODULE Spec2Model ----
(***************************************************************************)
(* A model of the fixed-capacity ring buffer of src/RingBuffer.cpp         *)
(* (class RingBuffer<T>) and of its wraparound cursor (class               *)
(* ring_iterator<T>).                                                      *)
(*                                                                         *)
(* The memory reachable through buffer.get() is modelled slot by slot.     *)
(* The constructor allocates `new T[capacity]`, i.e. `allocated` slots,    *)
(* while the cursors run modulo capacity+1; a slot index >= allocated is   *)
(* outside the block.  An access outside the block is undefined behaviour: *)
(* a store there leaves an arbitrary value in the slot, and the content of *)
(* the freshly allocated (uninitialised) block is arbitrary as well.       *)
(*                                                                         *)
(* SpecAny adds the defaulted constructor, SpecCursor moves a cursor on    *)
(* its own, and SpecRaw is the raw-pointer variant of the buffer in        *)
(* src/unnamed/part_000.                                                   *)
(***************************************************************************)
EXTENDS Integers, Sequences, FiniteSets, TLC

\* ---- bounds -------------------------------------------------------------
MaxCapacity == 2        \* largest capacity passed to a constructor
NumValues   == 2        \* number of distinct element values of type T
MaxOps      == 3        \* bound on each of the two history counters

Values     == 1..NumValues
Capacities == 0..MaxCapacity

VARIABLES
    buffer,       \* memory at buffer.get()+k, k \in 0..capacity
    read,         \* RingBuffer::read
    write,        \* RingBuffer::write
    length,       \* RingBuffer::length
    capacity,     \* RingBuffer::capacity (the constructor argument + 1)
    allocated,    \* number of T slots of the block owned by `buffer`
    live,         \* history: the admitted values not yet removed, oldest first
    admitted,     \* history: number of put calls made while not full
    removeCalls,  \* history: number of get/pop calls made while non-empty
    it,           \* a ring_iterator: [idx, cycle]
    result        \* outcome of the last call

vars == <<buffer, read, write, length, capacity, allocated,
          live, admitted, removeCalls, it, result>>

\* the RingBuffer object as a value
this == [buffer |-> buffer, read |-> read, write |-> write,
         length |-> length, capacity |-> capacity, allocated |-> allocated]

\* addressable slots of a buffer whose cursors run modulo cap: the cursor
\* arithmetic of ring_iterator can produce every index in 0..cap
Slots(cap) == 0..cap

\* ---- ring_iterator --------------------------------------------------------

\* ring_iterator(idx, cycle, buffer)
ring_iterator(idx, cycle) == [idx |-> idx, cycle |-> cycle]

abs(n) == IF n < 0 THEN -n ELSE n

\* the loop of operator-= : while (tmpidx < 0) tmpidx = cycle - (abs(tmpidx) - 1)
RECURSIVE minus_loop(_, _)
minus_loop(tmpidx, cycle) ==
    IF tmpidx < 0 THEN minus_loop(cycle - (abs(tmpidx) - 1), cycle)
                  ELSE tmpidx

\* ring_iterator::operator-=(int offset)
minus_assign(i, offset) ==
    [i EXCEPT !.idx = minus_loop(i.idx - offset, i.cycle)]

\* ring_iterator::operator-(int offset): a copy moved by operator-=
minus(i, offset) == minus_assign(i, offset)

\* ring_iterator::operator+=(int offset)
plus_assign(i, offset) == [i EXCEPT !.idx = (i.idx + offset) % i.cycle]

\* ring_iterator::operator+(int offset): a copy moved by operator+=
plus(i, offset) == plus_assign(i, offset)

\* ring_iterator::operator++()
pre_increment(i) == [i EXCEPT !.idx = (i.idx + 1) % i.cycle]

\* operator-- written as `*this -= 1`
pre_decrement_by_minus(i) == minus_assign(i, 1)

\* ring_iterator::operator--()
pre_decrement(i) == [i EXCEPT !.idx = IF i.idx = 0 THEN i.cycle - 1 ELSE i.idx - 1]

\* operator==(ring_iterator, ring_iterator)
iter_eq(lhs, rhs) == lhs.idx = rhs.idx

\* operator!=(ring_iterator, ring_iterator)
iter_neq(lhs, rhs) == ~iter_eq(lhs, rhs)

\* ring_iterator::operator*(): the slot buffer[idx]
deref_slot(i) == i.idx

\* ---- RingBuffer: size and cursors ----------------------------------------

\* RingBuffer::overflow(int n)
overflow(self, n) == n % self.capacity

\* RingBuffer::size()
size(self) == self.length

\* full() with the wraparound of write + 1 left out
full_unwrapped(self) == self.read = self.write + 1

\* RingBuffer::full()
full(self) == self.read = (self.write + 1) % self.capacity

\* RingBuffer::empty()
empty(self) == self.length = 0

\* RingBuffer::begin()
begin(self) == ring_iterator(self.read, self.capacity)

\* RingBuffer::end()
end(self) == ring_iterator(self.write, self.capacity)

\* the value held by slot k
load(self, k) == self.buffer[k]

\* a store of value into slot k; outside the allocated block the slot ends
\* up holding oob, any value
store(self, k, value, oob) ==
    [self EXCEPT !.buffer[k] = IF k < self.allocated THEN value ELSE oob]

\* ---- RingBuffer: constructors --------------------------------------------

\* RingBuffer(size_t capacity); mem is the content of the uninitialised memory
RingBuffer(cap, mem) ==
    [buffer |-> mem, read |-> 0, write |-> 0, length |-> 0,
     capacity |-> cap + 1, allocated |-> cap]

\* RingBuffer::put(T const&, true_type) / put(T const&, false_type):
\* copies value into the slot end() designates
put_value(self, value, oob) == store(self, deref_slot(end(self)), value, oob)

\* put() without ++length
put_uncounted(self, value, oob) ==
    IF ~full(self)
    THEN LET s == put_value(self, value, oob)
         IN  [s EXCEPT !.write = overflow(s, s.write + 1)]
    ELSE self

\* RingBuffer::put(T const&)
put(self, value, oob) ==
    IF ~full(self)
    THEN LET s == put_value(self, value, oob)
         IN  [s EXCEPT !.write = overflow(s, s.write + 1), !.length = @ + 1]
    ELSE self

\* the fill loop started at 1 instead of 0
RECURSIVE fill_short(_, _, _, _, _)
fill_short(self, i, cap, value, oob) ==
    IF i + 1 < cap THEN fill_short(put(self, value, oob), i + 1, cap, value, oob)
                   ELSE self

\* the loop of RingBuffer(size_t, T const&): for (i = 0; i < capacity; ++i) put(value)
RECURSIVE fill(_, _, _, _, _)
fill(self, i, cap, value, oob) ==
    IF i < cap THEN fill(put(self, value, oob), i + 1, cap, value, oob)
               ELSE self

\* RingBuffer(size_t capacity, T const& value)
RingBufferFill(cap, value, mem, oob) ==
    fill(RingBuffer(cap, mem), 0, cap, value, oob)

\* ---- RingBuffer: access and removal ---------------------------------------

\* RingBuffer::operator[](size_t idx): the slot buffer.get() + overflow(read + idx)
index_slot(self, idx) == overflow(self, self.read + idx)

\* RingBuffer::at(size_t idx)
at(self, idx) ==
    IF empty(self) \/ ~(0 <= idx /\ idx < self.length)
    THEN [kind |-> "ref", slot |-> index_slot(self, idx)]
    ELSE [kind |-> "out_of_range", slot |-> 0]

\* get() that reads buffer[read] before looking at empty() and returns it
\* whatever the answer
get_unchecked(self) ==
    IF ~empty(self)
    THEN LET tmp == at(self, self.read)
         IN  IF tmp.kind = "ref"
             THEN [self |-> [self EXCEPT !.read = overflow(self, self.read + 1),
                                         !.length = @ - 1],
                   kind |-> "value", val |-> load(self, tmp.slot)]
             ELSE [self |-> self, kind |-> "out_of_range", val |-> 0]
    ELSE [self |-> self, kind |-> "value", val |-> load(self, self.read)]

\* RingBuffer::get()
get(self) ==
    IF ~empty(self)
    THEN LET tmp == at(self, self.read)
         IN  IF tmp.kind = "ref"
             THEN [self |-> [self EXCEPT !.read = overflow(self, self.read + 1),
                                         !.length = @ - 1],
                   kind |-> "value", val |-> load(self, tmp.slot)]
             ELSE [self |-> self, kind |-> "out_of_range", val |-> 0]
    ELSE [self |-> self, kind |-> "logic_error", val |-> 0]

\* pop() without --length
pop_uncounted(self) ==
    IF ~empty(self)
    THEN [self |-> [self EXCEPT !.read = overflow(self, self.read + 1)],
          kind |-> "void"]
    ELSE [self |-> self, kind |-> "logic_error"]

\* pop() that counts the removal but leaves read where it is
pop_keep(self) ==
    IF ~empty(self)
    THEN [self |-> [self EXCEPT !.length = @ - 1], kind |-> "void"]
    ELSE [self |-> self, kind |-> "logic_error"]

\* RingBuffer::pop()
pop(self) ==
    IF ~empty(self)
    THEN [self |-> [self EXCEPT !.read = overflow(self, self.read + 1),
                                !.length = @ - 1],
          kind |-> "void"]
    ELSE [self |-> self, kind |-> "logic_error"]

\* RingBuffer::front(): the slot *begin() designates
front(self) == deref_slot(begin(self))

\* RingBuffer::back(): the slot it designates
back(self) ==
    IF size(self) <= 1 THEN deref_slot(begin(self))
                       ELSE deref_slot(minus(end(self), 1))

\* for (i = begin(); i != end(); ++i) visit *i : the values visited, in order
RECURSIVE walk(_, _, _)
walk(self, i, acc) ==
    IF iter_neq(i, end(self))
    THEN walk(self, pre_increment(i), Append(acc, load(self, deref_slot(i))))
    ELSE acc

\* n successive get() calls: the values returned, and whether all returned
RECURSIVE drain(_, _, _)
drain(self, n, acc) ==
    IF n = 0 THEN [ok |-> TRUE, vals |-> acc]
    ELSE LET g == get(self)
         IN  IF g.kind = "value" THEN drain(g.self, n - 1, Append(acc, g.val))
                                 ELSE [ok |-> FALSE, vals |-> acc]

\* ---- state machine ---------------------------------------------------------

NoResult == [op |-> "none", kind |-> "void", val |-> 0, slot |-> 0, n |-> 0,
             old |-> 0, vals |-> <<>>]

Res(op, kind) == [NoResult EXCEPT !.op = op, !.kind = kind]

\* the object's fields take the values of s
Assign(s) ==
    /\ buffer' = s.buffer
    /\ read' = s.read
    /\ write' = s.write
    /\ length' = s.length
    /\ capacity' = s.capacity
    /\ allocated' = s.allocated

Constructed(s) ==
    /\ buffer = s.buffer
    /\ read = s.read
    /\ write = s.write
    /\ length = s.length
    /\ capacity = s.capacity
    /\ allocated = s.allocated

\* the state after RingBuffer(cap)
InitCapacity ==
    \E cap \in Capacities : \E mem \in [Slots(cap + 1) -> Values] :
        /\ Constructed(RingBuffer(cap, mem))
        /\ live = <<>>
        /\ admitted = 0
        /\ result = [Res("RingBuffer", "void") EXCEPT !.n = cap]

\* the state after RingBuffer(cap, value)
InitFill ==
    \E cap \in Capacities : \E mem \in [Slots(cap + 1) -> Values] :
      \E value \in Values : \E oob \in Values :
        LET s == RingBufferFill(cap, value, mem, oob)
        IN  /\ Constructed(s)
            /\ live = [k \in 1..s.length |-> value]
            /\ admitted = s.length
            /\ result = [Res("RingBufferFill", "void") EXCEPT !.n = cap, !.val = value]

Init ==
    /\ InitCapacity \/ InitFill
    /\ removeCalls = 0
    /\ it = begin(this)

Put(value) ==
    /\ full(this) \/ admitted < MaxOps
    /\ \E oob \in Values : Assign(put(this, value, oob))
    /\ live' = IF full(this) THEN live ELSE Append(live, value)
    /\ admitted' = IF full(this) THEN admitted ELSE admitted + 1
    /\ result' = [Res("put", "void") EXCEPT !.val = value]
    /\ UNCHANGED <<removeCalls, it>>

Get ==
    /\ empty(this) \/ removeCalls < MaxOps
    /\ LET g == get(this)
       IN  /\ Assign(g.self)
           /\ live' = IF g.self.length < length THEN Tail(live) ELSE live
           /\ result' = [Res("get", g.kind) EXCEPT !.val = g.val]
    /\ removeCalls' = IF empty(this) THEN removeCalls ELSE removeCalls + 1
    /\ UNCHANGED <<admitted, it>>

Pop ==
    /\ empty(this) \/ removeCalls < MaxOps
    /\ LET p == pop(this)
       IN  /\ Assign(p.self)
           /\ live' = IF p.self.length < length THEN Tail(live) ELSE live
           /\ result' = Res("pop", p.kind)
    /\ removeCalls' = IF empty(this) THEN removeCalls ELSE removeCalls + 1
    /\ UNCHANGED <<admitted, it>>

\* an accessor that consumes the element it looks at, as get() does
FrameConsuming ==
    /\ read' = (read + 1) % capacity
    /\ UNCHANGED <<buffer, write, length, capacity, allocated,
                   live, admitted, removeCalls, it>>

\* the accessors assign no member of the buffer
Frame == UNCHANGED <<buffer, read, write, length, capacity, allocated,
                     live, admitted, removeCalls, it>>

\* the logical indices passed to at() and operator[]
Indices == 0..(MaxCapacity + 1)

At(idx) ==
    /\ LET a == at(this, idx)
       IN  result' = [Res("at", a.kind) EXCEPT
                        !.n = idx, !.slot = a.slot,
                        !.val = IF a.kind = "ref" THEN load(this, a.slot) ELSE 0]
    /\ Frame

Index(idx) ==
    /\ result' = [Res("operator[]", "ref") EXCEPT
                    !.n = idx, !.slot = index_slot(this, idx),
                    !.val = load(this, index_slot(this, idx))]
    /\ Frame

Front ==
    /\ result' = [Res("front", "ref") EXCEPT
                    !.slot = front(this), !.val = load(this, front(this))]
    /\ Frame

Back ==
    /\ result' = [Res("back", "ref") EXCEPT
                    !.slot = back(this), !.val = load(this, back(this))]
    /\ Frame

Traverse ==
    /\ result' = [Res("traverse", "seq") EXCEPT
                    !.vals = walk(this, begin(this), <<>>)]
    /\ Frame

Bool(b) == IF b THEN "true" ELSE "false"

Size ==
    /\ result' = [Res("size", "value") EXCEPT !.val = size(this)]
    /\ Frame

Empty ==
    /\ result' = Res("empty", Bool(empty(this)))
    /\ Frame

Full ==
    /\ result' = Res("full", Bool(full(this)))
    /\ Frame

Begin ==
    /\ result' = [Res("begin", "cursor") EXCEPT
                    !.val = begin(this).idx, !.n = begin(this).cycle]
    /\ Frame

End ==
    /\ result' = [Res("end", "cursor") EXCEPT
                    !.val = end(this).idx, !.n = end(this).cycle]
    /\ Frame

Next ==
    \/ \E value \in Values : Put(value)
    \/ Get
    \/ Pop
    \/ \E idx \in Indices : At(idx)
    \/ \E idx \in Indices : Index(idx)
    \/ Front
    \/ Back
    \/ Traverse
    \/ Size
    \/ Empty
    \/ Full
    \/ Begin
    \/ End

Spec == Init /\ [][Next]_vars

\* ---- the cursor on its own -------------------------------------------------

\* ring_iterator::operator++(int): the moved cursor and the returned copy
post_increment(i) == [it |-> pre_increment(i), ret |-> i]

\* ring_iterator::operator--(int): the moved cursor and the returned copy
post_decrement(i) == [it |-> pre_decrement(i), ret |-> i]

\* the offsets passed to + - += -=
Offsets == 0..(MaxCapacity + 1)

\* a cursor ring_iterator(idx, capacity, buffer.get()) at any index below
\* its modulus, into a buffer built by RingBuffer(cap)
InitCursor ==
    /\ InitCapacity
    /\ removeCalls = 0
    /\ \E idx \in 0..(capacity - 1) : it = ring_iterator(idx, capacity)

CursorFrame == UNCHANGED <<buffer, read, write, length, capacity, allocated,
                           live, admitted, removeCalls>>

CursorRes(op, n, ret) ==
    [Res(op, "cursor") EXCEPT !.old = it.idx, !.n = n, !.val = ret.idx]

MinusAssign(n) ==
    /\ it' = minus_assign(it, n)
    /\ result' = CursorRes("-=", n, minus_assign(it, n))
    /\ CursorFrame

Minus(n) ==
    /\ it' = it
    /\ result' = CursorRes("-", n, minus(it, n))
    /\ CursorFrame

PlusAssign(n) ==
    /\ it' = plus_assign(it, n)
    /\ result' = CursorRes("+=", n, plus_assign(it, n))
    /\ CursorFrame

Plus(n) ==
    /\ it' = it
    /\ result' = CursorRes("+", n, plus(it, n))
    /\ CursorFrame

PreIncrement ==
    /\ it' = pre_increment(it)
    /\ result' = CursorRes("++it", 1, pre_increment(it))
    /\ CursorFrame

PreDecrement ==
    /\ it' = pre_decrement(it)
    /\ result' = CursorRes("--it", 1, pre_decrement(it))
    /\ CursorFrame

PostIncrement ==
    /\ it' = post_increment(it).it
    /\ result' = CursorRes("it++", 1, post_increment(it).ret)
    /\ CursorFrame

PostDecrement ==
    /\ it' = post_decrement(it).it
    /\ result' = CursorRes("it--", 1, post_decrement(it).ret)
    /\ CursorFrame

NextCursor ==
    \/ \E n \in Offsets : MinusAssign(n)
    \/ \E n \in Offsets : Minus(n)
    \/ \E n \in Offsets : PlusAssign(n)
    \/ \E n \in Offsets : Plus(n)
    \/ PreIncrement
    \/ PreDecrement
    \/ PostIncrement
    \/ PostDecrement

SpecCursor == InitCursor /\ [][NextCursor]_vars

\* ---- properties ------------------------------------------------------------

\* the requested capacity of the buffer
Requested == capacity - 1

\* C1: get() on a non-empty buffer returns the oldest stored element,
\* advances read by one modulo capacity and decreases the size by exactly 1.
C1_GetReturnsOldest ==
    [][(Get /\ length > 0) =>
          /\ result'.kind = "value"
          /\ result'.val = Head(live)
          /\ read' = (read + 1) % capacity
          /\ length' = length - 1]_vars

\* C2: at(i) serves slot (read + i) mod capacity when i < size() and fails
\* with an out-of-range error, serving nothing, when i >= size().
C2_AtBoundsChecked ==
    result.op = "at" =>
        IF result.n < length
        THEN result.kind = "ref" /\ result.slot = (read + result.n) % capacity
        ELSE result.kind = "out_of_range"

\* C3: put(x) on a full buffer changes neither the cursors, nor the size, nor
\* any stored element, and x is not admitted.
C3_PutOnFullIsNoOp ==
    [][(length = Requested /\ result'.op = "put") =>
          \A value \in Values :
              Put(value) =>
                  UNCHANGED <<buffer, read, write, length, live, admitted>>]_vars

\* a put(x) has just been made on a full buffer of capacity >= 1 whose
\* newest element differs from x
C3_Witness ==
    /\ result.op = "put"
    /\ Requested >= 1
    /\ length = Requested
    /\ live[Len(live)] # result.val

\* C4: get() and pop() on an empty buffer fail with an error and leave the
\* cursors, the size and the stored contents unchanged.
C4_EmptyGetPopFail ==
    [][(length = 0 /\ result'.op \in {"get", "pop"} /\ (Get \/ Pop)) =>
          /\ result'.kind = "logic_error"
          /\ UNCHANGED <<buffer, read, write, length, live>>]_vars

\* a get() has just failed on a buffer emptied after both cursors went once
\* around the ring
C4_Witness ==
    /\ result.op = "get"
    /\ result.kind = "logic_error"
    /\ Requested >= 1
    /\ admitted >= capacity
    /\ read = write

\* C5: size() is the number of admitted puts minus the number of get()/pop()
\* calls made on a non-empty buffer, and lies in 0..capacity requested.
C5_SizeAccounting ==
    /\ length = admitted - removeCalls
    /\ 0 <= length
    /\ length <= Requested

\* C6: back() on a non-empty buffer designates the slot of front() when
\* size() <= 1 and the slot (write - 1) mod capacity otherwise.
C6_BackIsNewest ==
    (result.op = "back" /\ length > 0) =>
        result.slot = IF length <= 1 THEN read
                      ELSE (write + capacity - 1) % capacity

\* C7: a cursor stepped from begin() reaches end() after exactly size()
\* increments, and the k-th value it designates is the k-th oldest live element.
C7_TraversalIsLiveRange ==
    LET w == walk(this, begin(this), <<>>)
    IN  /\ Len(w) = length
        /\ w = live

\* C8: the values visited from begin() to end() are the size() live elements
\* in FIFO order, and size() successive get() calls return the same values.
C8_RoundTrip ==
    LET w == walk(this, begin(this), <<>>)
        d == drain(this, length, <<>>)
    IN  /\ Len(w) = length
        /\ w = live
        /\ d.ok
        /\ d.vals = w

\* C9: after RingBuffer(c, v) with c > 0 the buffer holds exactly c admitted
\* copies of v: size() = c, full, not empty, read = 0, write = c, and every
\* logical index 0..c-1 holds v.
C9_FillConstruct ==
    (result.op = "RingBufferFill" /\ result.n > 0) =>
        /\ size(this) = result.n
        /\ full(this)
        /\ ~empty(this)
        /\ read = 0
        /\ write = result.n
        /\ admitted = result.n
        /\ \A i \in 0..(result.n - 1) :
              load(this, index_slot(this, i)) = result.val

\* a buffer has just been built by RingBuffer(c, v) with c >= 2
C9_Witness ==
    /\ result.op = "RingBufferFill"
    /\ result.n >= 2
    /\ length = result.n

\* C10: for a cursor at index i < m and an offset n <= m - 1, `it -= n` and
\* `it - n` give the cursor index (i - n) mod m.
C10_TrueRemainder ==
    (result.op \in {"-=", "-"} /\ result.old < it.cycle /\ result.n <= it.cycle - 1) =>
        /\ result.val = (result.old - result.n + it.cycle) % it.cycle
        /\ result.val \in 0..(it.cycle - 1)

\* C11: on a cursor at index i < m, ++ moves to (i + 1) mod m and -- moves to
\* (i - 1) mod m; the pre forms return the moved cursor, the post forms a
\* cursor holding the old index i.
C11_IncDecWrap ==
    (result.op \in {"++it", "it++", "--it", "it--"} /\ result.old < it.cycle) =>
        /\ it.idx = IF result.op \in {"++it", "it++"}
                    THEN (result.old + 1) % it.cycle
                    ELSE (result.old + it.cycle - 1) % it.cycle
        /\ result.val = IF result.op \in {"it++", "it--"} THEN result.old
                                                          ELSE it.idx

\* a post-decrement has just taken a cursor of modulus >= 2 from index 0 to
\* index m - 1
C11_Witness ==
    /\ result.op = "it--"
    /\ it.cycle >= 2
    /\ result.old = 0
    /\ it.idx = it.cycle - 1

\* C12: pop() on a non-empty buffer advances read by one modulo capacity and
\* decrements length; write and every slot are unchanged, the oldest element
\* leaves and the element of logical index 1 becomes front().
C12_PopDiscardsOldest ==
    [][(length > 0 /\ result'.op = "pop" /\ Pop) =>
          /\ result'.kind = "void"
          /\ read' = (read + 1) % capacity
          /\ length' = length - 1
          /\ UNCHANGED <<write, buffer, capacity>>
          /\ live' = Tail(live)
          /\ front(this)' = index_slot(this, 1)]_vars

\* a pop() has just discarded the oldest of at least two elements
C12_Witness ==
    /\ result.op = "pop"
    /\ result.kind = "void"
    /\ length >= 1
    /\ Len(live) = length

\* C13: a construction with requested capacity 0 is rejected with an
\* InvalidCapacity error, and no buffer of requested capacity 0 is ever usable.
C13_ZeroCapacityRejected ==
    /\ (result.op \in {"RingBuffer", "RingBufferFill"} /\ result.n = 0) =>
           result.kind = "invalid_capacity"
    /\ Requested >= 1

\* the slots holding the live elements
LiveSlots == {(read + i) % capacity : i \in 0..(length - 1)}

\* C14: the block allocated at construction has capacity requested + 1
\* slots, so the slot put writes next and every slot holding a live element
\* lie inside it.
C14_StorageCoversRing ==
    /\ allocated = Requested + 1
    /\ write < allocated
    /\ \A k \in LiveSlots : k < allocated

\* C15: read and write lie in 0..capacity-1 and length is (write - read)
\* modulo capacity.
C15_CursorsInRange ==
    /\ read \in 0..(capacity - 1)
    /\ write \in 0..(capacity - 1)
    /\ length = (write - read + capacity) % capacity

\* the live range wraps past the end of the ring
C15_Witness ==
    /\ write < read
    /\ length >= 2
    /\ result.op \in {"put", "pop"}

\* C16: full() holds exactly when length is the requested capacity, and
\* empty() holds exactly when read equals write.
C16_FullEmptyAgree ==
    /\ full(this) <=> (length = Requested)
    /\ empty(this) <=> (read = write)

\* a put has just filled a buffer whose live range wraps
C16_Witness ==
    /\ result.op = "put"
    /\ Requested >= 2
    /\ full(this)
    /\ write < read
    /\ ~empty(this)

\* the names under which the access operations record their outcome
AccessorOps == {"front", "back", "at", "operator[]", "size", "empty", "full",
                "begin", "end"}

\* C18: front, back, at, operator[], size, empty, full, begin and end leave
\* read, write, length, capacity and every slot unchanged, whether they return
\* or throw; a step that changes a cursor or the count is a put, a get or a pop.
C18_AccessorsFrame ==
    [][/\ result'.op \in AccessorOps =>
             UNCHANGED <<buffer, read, write, length, capacity>>
       /\ ~(UNCHANGED <<read, write, length>>) =>
             ((\E value \in Values : Put(value)) \/ Get \/ Pop)]_vars

\* an at() call has just thrown on a buffer holding elements
C18_Witness ==
    /\ result.op = "at"
    /\ result.kind = "out_of_range"
    /\ length >= 1

\* ---- the default constructor ---------------------------------------------

\* RingBuffer() = default: buffer is nullptr and capacity is 0 by their member
\* initialisers; read, write and length have none and are indeterminate
RingBufferDefault(r, w, l) ==
    [buffer |-> [k \in {} |-> 0], read |-> r, write |-> w, length |-> l,
     capacity |-> 0, allocated |-> 0]

\* the values an indeterminate size_t member is drawn from
Indeterminate == 0..MaxCapacity

\* the state after RingBuffer()
InitDefault ==
    \E r \in Indeterminate, w \in Indeterminate, l \in Indeterminate :
        /\ Constructed(RingBufferDefault(r, w, l))
        /\ live = <<>>
        /\ admitted = 0
        /\ result = Res("RingBufferDefault", "void")

InitAny ==
    /\ InitDefault \/ InitCapacity \/ InitFill
    /\ removeCalls = 0
    /\ it = begin(this)

\* the execution is followed until a call has undefined behaviour
Defined == result.kind # "undefined"

\* full() on a default-constructed buffer evaluates (write + 1) % 0
FullDefault ==
    /\ result' = Res("full", "undefined")
    /\ Frame

\* put() on a default-constructed buffer starts with full()
PutDefault ==
    /\ result' = Res("put", "undefined")
    /\ Frame

\* get() on a default-constructed buffer: `empty buffer` when length is 0,
\* `index too large` from at(read) when read < length, and otherwise
\* operator[] evaluates (read + read) % 0 on a null buffer
GetDefault ==
    /\ result' = Res("get", IF empty(this) THEN "logic_error"
                            ELSE IF read < length THEN "out_of_range"
                            ELSE "undefined")
    /\ Frame

\* pop() on a default-constructed buffer: `empty` when length is 0, and
\* otherwise overflow(read + 1) evaluates (read + 1) % 0
PopDefault ==
    /\ result' = Res("pop", IF empty(this) THEN "logic_error" ELSE "undefined")
    /\ Frame

\* the calls made on a default-constructed buffer
NextDefault ==
    \/ Size
    \/ Empty
    \/ Begin
    \/ End
    \/ FullDefault
    \/ PutDefault
    \/ GetDefault
    \/ PopDefault

NextAny ==
    \/ capacity >= 1 /\ Next
    \/ capacity = 0 /\ Defined /\ NextDefault

SpecAny == InitAny /\ [][NextAny]_vars

\* C17: every constructed buffer has capacity >= 1 with read, write and length
\* started at 0 (the filling constructor then makes its puts), and capacity
\* never changes afterwards.
C17_ModulusNeverZero ==
    /\ [](/\ capacity >= 1
          /\ result.op \in {"RingBufferDefault", "RingBuffer"} =>
                (read = 0 /\ write = 0 /\ length = 0)
          /\ result.op = "RingBufferFill" =>
                (read = 0 /\ write = result.n /\ length = result.n))
    /\ [][capacity' = capacity]_vars

\* ---- the raw-pointer variant (src/unnamed/part_000) -----------------------

\* number of nested activations after which a recursion that has not
\* returned is taken never to return
MaxDepth == 3

\* T(): make_unique<T[]>(n) value-initialises the slots
DefaultT == 0

\* RingBuffer(size_t capacity)
RawRingBuffer(cap) ==
    [buffer |-> [k \in 0..cap |-> DefaultT], read |-> 0, write |-> 0,
     length |-> 0, capacity |-> cap + 1, allocated |-> cap + 1]

\* size()
raw_size(self) == self.length

\* full()
raw_full(self) == self.read = (self.write + 1) % self.capacity

\* empty(): `return size == 0;`, read as size() == 0
raw_empty(self) == raw_size(self) = 0

\* put(T const&): buffer[write] = value under both copy overloads
raw_put(self, value) ==
    IF ~raw_full(self)
    THEN [self EXCEPT !.buffer[self.write] = value,
                      !.write = (self.write + 1) % self.capacity,
                      !.length = @ + 1]
    ELSE self

\* the loop of RingBuffer(size_t, T const&)
RECURSIVE raw_fill(_, _, _, _)
raw_fill(self, i, cap, value) ==
    IF i < cap THEN raw_fill(raw_put(self, value), i + 1, cap, value)
               ELSE self

\* RingBuffer(size_t capacity, T const& value)
RawRingBufferFill(cap, value) == raw_fill(RawRingBuffer(cap), 0, cap, value)

\* get(): reads buffer[read] first, moves read only when not empty, and
\* returns what it read in both cases
raw_get(self) ==
    LET tmp == self.buffer[self.read]
    IN  IF ~raw_empty(self)
        THEN [self |-> [self EXCEPT !.read = (self.read + 1) % self.capacity,
                                    !.length = @ - 1],
              kind |-> "value", val |-> tmp]
        ELSE [self |-> self, kind |-> "value", val |-> tmp]

\* begin() const: &buffer[read]
raw_begin_const(self) == [kind |-> "ref", slot |-> self.read]

\* begin(): the const overload called on *this
raw_begin(self) == raw_begin_const(self)

\* end(): &buffer[write]
raw_end(self) == [kind |-> "ref", slot |-> self.write]

\* end() const: calls end() on a const reference to *this, that is itself
RECURSIVE raw_end_const(_, _)
raw_end_const(self, depth) ==
    IF depth >= MaxDepth THEN [kind |-> "no_return", slot |-> 0]
                         ELSE raw_end_const(self, depth + 1)

\* front(): *begin()
raw_front(self) == raw_begin(self)

\* front() const: calls front() on a const reference to *this, that is itself
RECURSIVE raw_front_const(_, _)
raw_front_const(self, depth) ==
    IF depth >= MaxDepth THEN [kind |-> "no_return", slot |-> 0]
                         ELSE raw_front_const(self, depth + 1)

\* back(): *begin() when size() <= 1, else *(end() - 1), a pointer subtraction
raw_back(self) ==
    IF raw_size(self) <= 1 THEN raw_begin(self)
    ELSE [kind |-> "ref", slot |-> raw_end(self).slot - 1]

\* back() const: calls back() on a const reference to *this, that is itself
RECURSIVE raw_back_const(_, _)
raw_back_const(self, depth) ==
    IF depth >= MaxDepth THEN [kind |-> "no_return", slot |-> 0]
                         ELSE raw_back_const(self, depth + 1)

\* the state after RingBuffer(cap) or RingBuffer(cap, value)
InitRaw ==
    /\ \E cap \in Capacities :
         \/ /\ Constructed(RawRingBuffer(cap))
            /\ live = <<>>
            /\ admitted = 0
            /\ result = [Res("RingBuffer", "void") EXCEPT !.n = cap]
         \/ \E value \in Values :
              LET s == RawRingBufferFill(cap, value)
              IN  /\ Constructed(s)
                  /\ live = [k \in 1..s.length |-> value]
                  /\ admitted = s.length
                  /\ result = [Res("RingBufferFill", "void") EXCEPT
                                 !.n = cap, !.val = value]
    /\ removeCalls = 0
    /\ it = ring_iterator(0, capacity)

\* no call made so far is still running
Returned == result.kind # "no_return"

RawPut(value) ==
    /\ Returned
    /\ raw_full(this) \/ admitted < MaxOps
    /\ Assign(raw_put(this, value))
    /\ live' = IF raw_full(this) THEN live ELSE Append(live, value)
    /\ admitted' = IF raw_full(this) THEN admitted ELSE admitted + 1
    /\ result' = [Res("put", "void") EXCEPT !.val = value]
    /\ UNCHANGED <<removeCalls, it>>

RawGet ==
    /\ Returned
    /\ raw_empty(this) \/ removeCalls < MaxOps
    /\ LET g == raw_get(this)
       IN  /\ Assign(g.self)
           /\ live' = IF g.self.length < length THEN Tail(live) ELSE live
           /\ result' = [Res("get", g.kind) EXCEPT !.val = g.val]
    /\ removeCalls' = IF raw_empty(this) THEN removeCalls ELSE removeCalls + 1
    /\ UNCHANGED <<admitted, it>>

\* the outcome of an accessor returning a pointer or a reference; a slot
\* outside the block holds any value
RawRef(op, r) ==
    /\ Returned
    /\ \E oob \in Values :
         result' = [Res(op, r.kind) EXCEPT
                      !.slot = r.slot,
                      !.val = IF r.kind # "ref" THEN 0
                              ELSE IF r.slot \in 0..(allocated - 1)
                                   THEN load(this, r.slot) ELSE oob]
    /\ Frame

RawBegin == RawRef("begin", raw_begin(this))

RawBeginConst == RawRef("begin const", raw_begin_const(this))

RawEnd == RawRef("end", raw_end(this))

RawEndConst == RawRef("end const", raw_end_const(this, 0))

RawFront == RawRef("front", raw_front(this))

RawFrontConst == RawRef("front const", raw_front_const(this, 0))

RawBack == RawRef("back", raw_back(this))

RawBackConst == RawRef("back const", raw_back_const(this, 0))

RawSize ==
    /\ Returned
    /\ result' = [Res("size", "value") EXCEPT !.val = raw_size(this)]
    /\ Frame

RawEmpty ==
    /\ Returned
    /\ result' = Res("empty", Bool(raw_empty(this)))
    /\ Frame

RawFull ==
    /\ Returned
    /\ result' = Res("full", Bool(raw_full(this)))
    /\ Frame

NextRaw ==
    \/ \E value \in Values : RawPut(value)
    \/ RawGet
    \/ RawBegin
    \/ RawBeginConst
    \/ RawEnd
    \/ RawEndConst
    \/ RawFront
    \/ RawFrontConst
    \/ RawBack
    \/ RawBackConst
    \/ RawSize
    \/ RawEmpty
    \/ RawFull

SpecRaw == InitRaw /\ [][NextRaw]_vars

\* C19: in the raw-pointer variant get() on an empty buffer fails with an
\* error, returns no value, and leaves read, write and length unchanged.
C19_RawGetOnEmptyFails ==
    [][(RawGet /\ length = 0) =>
          /\ result'.kind = "logic_error"
          /\ UNCHANGED <<read, write, length>>]_vars

\* C20: in the raw-pointer variant every accessor returns, and front() const,
\* back() const and end() const give the slot of their non-const counterparts.
C20_RawAccessorsReturn ==
    /\ result.kind # "no_return"
    /\ result.op = "front const" => result.slot = raw_front(this).slot
    /\ result.op = "back const" => result.slot = raw_back(this).slot
    /\ result.op = "end const" => result.slot = raw_end(this).slot

====
